---- MODULE Spec2Model ----
(***************************************************************************)
(* Client onboarding tracker (src/src/App.js): the document store with its *)
(* client and task documents, the App component's selection state, the     *)
(* ClientDetail task list, and the asynchronous handlers that connect      *)
(* them.                                                                   *)
(*                                                                         *)
(* The store applies every write atomically (a batch lands whole or not at *)
(* all).  A handler's write is applied when the handler issues it; the     *)
(* code after an `await` runs in a later step, so snapshot callbacks and   *)
(* other handlers interleave with it.  A live query delivers the store's   *)
(* state at the time its callback runs.                                    *)
(***************************************************************************)
EXTENDS Integers, Sequences, FiniteSets, TLC

(* ------------------------------ bounds --------------------------------- *)
\* number of client documents ever created
MaxClients == 2
\* number of individually added tasks per client
MaxExtra == 2
\* number of handler invocations and channel failures in a session
MaxOps == 2
\* number of writes, reads or subscriptions the store fails
MaxFaults == 1
\* one more than the number of rows at the top of the displayed task list that
\* the user acts on; a drag also starts or ends on the last row
MaxRow == 2

(* ---------------------------- program data ----------------------------- *)
\* A name is a sequence of symbols: " " is one whitespace character, any
\* other symbol is a run of text without leading or trailing whitespace.
STANDARD_ONBOARDING_TASKS ==
    << <<"Kick off call">>, <<"Additional Requirement gathering">>,
       <<"Email to vendors for vendor integration">>,
       <<"Sign up the account on sell.do">>, <<"Setup account related details">>,
       <<"Schedule and conduct Admin Training">>,
       <<"Schedule and conduct User Training">>,
       <<"Handover client to support or Account Manager">> >>

NumSeed == Len(STANDARD_ONBOARDING_TASKS)

statuses == {"Pending", "In Progress", "Completed"}
priorityConfig == {"Urgent", "High", "Normal", "Low"}

\* JavaScript null, for a date or an error message
Null == "null"
\* selectedClient === null
NoClient == 0

ClientIds == 1..MaxClients
\* ids of the seed tasks of a client, and of its individually added ones
SeedIds == 1..NumSeed
ExtraIds == (NumSeed + 1)..(NumSeed + MaxExtra)
\* the rows of the displayed task list the user acts on (0-based indexes): the
\* first ones
TopRows == 0..(MaxRow - 2)

\* texts typed into the name inputs
NameInputs == { <<>>, <<" ">>, <<" ", "a", " ">> }
\* values of the date input: "" is the cleared input
DateInputs == {"", "2025-01-01"}

(* ------------------------------- state --------------------------------- *)
VARIABLES
    cdocs,          \* store: client id -> client document
    tdocs,          \* store: <<client id, task id>> -> task document
    usedIds,        \* task document keys the store has ever assigned
    clock,          \* the value `new Date()` returns
    clients,        \* App state: list of clients of the last snapshot
    selectedClient, \* App state: id of the selected client, or NoClient
    loading,        \* App state
    error,          \* App state: message, or Null
    clientsListener, \* the client-list subscription is active
    clientsDirty,   \* a client-list snapshot is pending delivery
    tasks,          \* ClientDetail state: task list of the last snapshot
    taskListeners,  \* ids of the clients with an active task subscription
    tasksDirty,     \* a task snapshot is pending for the mounted ClientDetail
    addPending,     \* addClient calls suspended at `await batch.commit()`
    delPending,     \* deleteClient calls suspended at `await getDocs(...)`
    unhandled,      \* a handler's promise was rejected with nobody catching it
    opsLeft,        \* handler invocations and channel failures still to come
    nFaults,        \* store rejections so far
    last            \* the step taken last, with its inputs

vars == <<cdocs, tdocs, usedIds, clock, clients, selectedClient, loading, error,
          clientsListener, clientsDirty, tasks, taskListeners, tasksDirty,
          addPending, delPending, unhandled, opsLeft, nFaults, last>>

(* ------------------------------ helpers -------------------------------- *)
Min(a, b) == IF a < b THEN a ELSE b

RECURSIVE TrimStart(_)
TrimStart(s) ==
    IF s # <<>> /\ Head(s) = " " THEN TrimStart(Tail(s)) ELSE s

RECURSIVE TrimEnd(_)
TrimEnd(s) ==
    IF s # <<>> /\ s[Len(s)] = " " THEN TrimEnd(SubSeq(s, 1, Len(s) - 1)) ELSE s

\* Trim with a slip: trailing whitespace stays
TrimStartOnly(s) == TrimStart(s)

\* String.prototype.trim
Trim(s) == TrimEnd(TrimStart(s))

\* Array.prototype.splice(start, deleteCount, ...items), start >= 0:
\* the array afterwards
SpliceArray(s, start, deleteCount, items) ==
    LET a == Min(start, Len(s))
        d == Min(deleteCount, Len(s) - a)
    IN  SubSeq(s, 1, a) \o items \o SubSeq(s, a + d + 1, Len(s))

\* Array.prototype.splice: the removed elements it returns
SpliceRemoved(s, start, deleteCount) ==
    LET a == Min(start, Len(s))
        d == Min(deleteCount, Len(s) - a)
    IN  SubSeq(s, a + 1, a + d)

\* ids of the documents in a list of snapshot rows
Ids(s) == {s[k].id : k \in 1..Len(s)}

\* query(..., orderBy("createdAt", "asc")): documents with equal field values
\* come in document id order; the document at each position is the one with
\* that many documents before it
OrderByCreatedAt(S) ==
    [n \in 1..Cardinality(S) |->
        CHOOSE x \in S :
            Cardinality({y \in S : y.createdAt < x.createdAt
                                      \/ (y.createdAt = x.createdAt /\ y.id < x.id)})
                = n - 1]

\* query(..., orderBy("order", "asc")): documents with equal field values
\* come in document id order
OrderByOrder(S) ==
    [n \in 1..Cardinality(S) |->
        CHOOSE x \in S :
            Cardinality({y \in S : y.order < x.order
                                      \/ (y.order = x.order /\ y.id < x.id)})
                = n - 1]

\* task document keys under client c
TaskKeys(c) == {k \in DOMAIN tdocs : k[1] = c}

\* querySnapshot.docs.map(doc => ({ id: doc.id, ...doc.data() })) for clients
ClientsData ==
    OrderByCreatedAt({ [id |-> c, name |-> cdocs[c].name,
                        createdAt |-> cdocs[c].createdAt] : c \in DOMAIN cdocs })

\* snapshot.docs.map(doc => ({ id: doc.id, ...doc.data() })) for the tasks of c
TasksData(c) ==
    OrderByOrder({ [id |-> k[2], name |-> tdocs[k].name, status |-> tdocs[k].status,
                    createdAt |-> tdocs[k].createdAt, order |-> tdocs[k].order,
                    priority |-> tdocs[k].priority, dueDate |-> tdocs[k].dueDate]
                   : k \in TaskKeys(c) })

\* App renders the sidebar and the detail pane: neither LoadingState nor ErrorState
Rendered == ~loading /\ error = Null

\* a ClientDetail is mounted, for selectedClient
Mounted == Rendered /\ selectedClient # NoClient

\* the selectedClient that the client-list callback reads: the value of the
\* render in which the effect ran; the effect's dependencies do not include
\* selectedClient, so it runs once, while nothing is selected yet
callbackSelectedClient == NoClient

\* the index of the last row of the displayed task list
LastRow == Len(tasks) - 1

\* r is a row of a displayed list of n tasks
IsRow(r, n) == 0 <= r /\ r < n

NoLast == [op |-> "init", ok |-> TRUE, c |-> NoClient, t |-> 0, name |-> <<>>,
           i |-> 0, j |-> 0, sel |-> NoClient, view |-> <<>>,
           field |-> "", value |-> "", old |-> ""]

(* ------------------------------- Init ---------------------------------- *)
\* the stores a session starts with: an empty one, and one that holds the
\* client an earlier session created with addClient
InitialStores ==
    { [cdocs |-> [c \in {} |-> 0], tdocs |-> [k \in {} |-> 0], usedIds |-> {},
       clock |-> 0],
      [cdocs |-> [c \in {1} |-> [name |-> <<"a">>, createdAt |-> 0]],
       tdocs |-> [k \in {1} \X SeedIds |->
                     [name |-> STANDARD_ONBOARDING_TASKS[k[2]], status |-> "Pending",
                      createdAt |-> 0, order |-> k[2] - 1, priority |-> "Normal",
                      dueDate |-> Null]],
       usedIds |-> {<<1, 0>>} \cup ({1} \X SeedIds),
       clock |-> 1] }

\* the state in which the client-list effect has just subscribed: the loading
\* screen, nothing selected, and the first snapshot on its way
Session(n) ==
    /\ \E s \in InitialStores :
          /\ cdocs = s.cdocs
          /\ tdocs = s.tdocs
          /\ usedIds = s.usedIds
          /\ clock = s.clock
    /\ clients = <<>>
    /\ selectedClient = NoClient
    /\ loading = TRUE
    /\ error = Null
    /\ clientsListener = TRUE
    /\ clientsDirty = TRUE
    /\ tasks = <<>>
    /\ taskListeners = {}
    /\ tasksDirty = FALSE
    /\ addPending = {}
    /\ delPending = {}
    /\ unhandled = FALSE
    /\ opsLeft = n
    /\ nFaults = 0
    /\ last = NoLast

\* a session of MaxOps handler invocations and channel failures
Init == Session(MaxOps)

\* a session of one more
InitDeep == Session(MaxOps + 1)

(* ----------------------- rendering after a step ------------------------ *)
\* The listeners after a step.  The client-list listener fires when the
\* client collection changed.  <ClientDetail key={selectedClient.id}> keeps its
\* state while it stays mounted for the same client; otherwise it is mounted
\* anew with tasks = [] and a new task listener, whose first snapshot is
\* pending.  A mounted detail's listener fires when its client's tasks changed.
\* Resubscribe with a slip: the effect has no cleanup, the listener of the
\* unmounted ClientDetail stays subscribed
ResubscribeLeaking(listeners, unmounted, mounted) == listeners \cup mounted

\* the task listeners after the tasks effect of the unmounted ClientDetail was
\* cleaned up (unsubscribe) and the effect of the newly mounted one has run
\* (onSnapshot); unmounted, mounted: the sets of their client ids
Resubscribe(listeners, unmounted, mounted) == (listeners \ unmounted) \cup mounted

RenderDetail ==
    LET mounted2 == ~loading' /\ error' = Null /\ selectedClient' # NoClient
        same == Mounted /\ mounted2 /\ selectedClient' = selectedClient
        c == selectedClient
        changed == /\ tdocs' # tdocs
                   /\ \/ {k \in DOMAIN tdocs' : k[1] = c} # TaskKeys(c)
                      \/ \E k \in TaskKeys(c) : tdocs'[k] # tdocs[k]
    IN  /\ tasks' = IF same THEN tasks ELSE <<>>
        /\ taskListeners' =
               IF same THEN taskListeners
               ELSE Resubscribe(taskListeners,
                                IF Mounted THEN {selectedClient} ELSE {},
                                IF mounted2 THEN {selectedClient'} ELSE {})
        /\ tasksDirty' = IF same
                         THEN c \in taskListeners /\ (tasksDirty \/ changed)
                         ELSE mounted2

\* the listeners after a step of a handler
Render ==
    /\ clientsListener' = clientsListener
    /\ clientsDirty' = (clientsListener /\ (clientsDirty \/ cdocs' # cdocs))
    /\ RenderDetail

(* ------------------------------ App: clients --------------------------- *)
\* the document id of doc(collection(db, clientsCollectionPath)): a new one
NewClientId == CHOOSE c \in ClientIds :
                   /\ <<c, 0>> \notin usedIds
                   /\ \A d \in ClientIds : <<d, 0>> \notin usedIds => c <= d

\* SeedTasks with a slip: order counts the template from 1
SeedTasksFromOne(c) ==
    [k \in {c} \X SeedIds |->
        [name |-> STANDARD_ONBOARDING_TASKS[k[2]], status |-> "Pending",
         createdAt |-> clock, order |-> k[2], priority |-> "Normal",
         dueDate |-> Null]]

\* the seed task documents addClient puts into its batch, keyed by
\* <<client id, task id>>
SeedTasks(c) ==
    [k \in {c} \X SeedIds |->
        [name |-> STANDARD_ONBOARDING_TASKS[k[2]], status |-> "Pending",
         createdAt |-> clock, order |-> k[2] - 1, priority |-> "Normal",
         dueDate |-> Null]]

\* AddClientBatch with a slip: the client document is written on its own, the
\* seed tasks are not
AddClientWithoutTasks(c, clientName) ==
    /\ cdocs' = [d \in DOMAIN cdocs \cup {c} |->
                    IF d = c THEN [name |-> Trim(clientName), createdAt |-> clock]
                    ELSE cdocs[d]]
    /\ tdocs' = tdocs

\* the store after batch.commit() of addClient succeeded
AddClientBatch(c, clientName) ==
    /\ cdocs' = [d \in DOMAIN cdocs \cup {c} |->
                    IF d = c THEN [name |-> Trim(clientName), createdAt |-> clock]
                    ELSE cdocs[d]]
    /\ LET seeds == SeedTasks(c) IN
       tdocs' = [k \in DOMAIN tdocs \cup DOMAIN seeds |->
                    IF k \in DOMAIN seeds THEN seeds[k] ELSE tdocs[k]]

\* addClient(clientName) up to `await batch.commit()`; ok: the store accepts
\* the batch
AddClient(clientName, ok) ==
    /\ Rendered
    /\ opsLeft > 0
    /\ opsLeft' = opsLeft - 1
    /\ IF Trim(clientName) = <<>>
       THEN /\ ok
            /\ last' = [NoLast EXCEPT !.op = "addClient", !.name = clientName,
                                      !.sel = selectedClient]
            /\ UNCHANGED <<cdocs, tdocs, usedIds, clock, addPending, nFaults>>
       ELSE /\ \E c \in ClientIds : <<c, 0>> \notin usedIds
            /\ LET c == NewClientId IN
               /\ usedIds' = usedIds \cup {<<c, 0>>} \cup ({c} \X SeedIds)
               /\ clock' = clock + 1
               /\ addPending' = addPending \cup {[id |-> c, ok |-> ok]}
               /\ last' = [NoLast EXCEPT !.op = "addClient", !.name = clientName,
                                         !.c = c, !.ok = ok, !.sel = selectedClient]
               /\ IF ok
                  THEN AddClientBatch(c, clientName) /\ UNCHANGED nFaults
                  ELSE /\ nFaults < MaxFaults
                       /\ nFaults' = nFaults + 1
                       /\ UNCHANGED <<cdocs, tdocs>>
    /\ UNCHANGED <<clients, selectedClient, loading, error, delPending, unhandled>>
    /\ Render

\* addClient after `await batch.commit()`: setSelectedClient, or the catch block
AddClientSettle(p) ==
    /\ p \in addPending
    /\ addPending' = addPending \ {p}
    /\ IF p.ok
       THEN selectedClient' = p.id /\ UNCHANGED error
       ELSE error' = "Failed to add new client." /\ UNCHANGED selectedClient
    /\ last' = [NoLast EXCEPT !.op = "addClientSettle", !.c = p.id, !.ok = p.ok,
                              !.sel = selectedClient]
    /\ UNCHANGED <<cdocs, tdocs, usedIds, clock, clients, loading, delPending,
                   unhandled, opsLeft, nFaults>>
    /\ Render

\* deleteClient(clientId) up to `await getDocs(...)`, called by the trash button
\* of the mounted ClientDetail; ok: the store answers the query, with the
\* client's task documents
DeleteClient(ok) ==
    /\ Mounted
    /\ opsLeft > 0
    /\ opsLeft' = opsLeft - 1
    /\ IF ok THEN UNCHANGED nFaults
             ELSE nFaults < MaxFaults /\ nFaults' = nFaults + 1
    /\ delPending' = delPending \cup
           {[client |-> selectedClient, ok |-> ok,
             docs |-> IF ok THEN TaskKeys(selectedClient) ELSE {}]}
    /\ last' = [NoLast EXCEPT !.op = "deleteClient", !.c = selectedClient,
                              !.ok = ok, !.sel = selectedClient]
    /\ UNCHANGED <<cdocs, tdocs, usedIds, clock, clients, selectedClient, loading,
                   error, addPending, unhandled>>
    /\ Render

\* DeleteBatchRejected with a slip: the deletes of the task documents are
\* applied, the delete of the client document is not
DeleteBatchRejectedPartly(p) ==
    /\ cdocs' = cdocs
    /\ tdocs' = [k \in DOMAIN tdocs \ p.docs |-> tdocs[k]]

\* the store after it rejected the batch of the deleteClient call p: a batch is
\* atomic, none of its deletes is applied
DeleteBatchRejected(p) == UNCHANGED <<cdocs, tdocs>>

\* deleteClient after `await getDocs(...)`: the catch block if the query
\* failed; otherwise the batch of deletes and its commit; ok: the store accepts
\* the batch
DeleteClientCommit(c, ok) ==
    \E p \in delPending :
    /\ p.client = c
    /\ delPending' = delPending \ {p}
    /\ IF ~p.ok
       THEN /\ ok
            /\ error' = "Failed to delete client."
            /\ UNCHANGED <<cdocs, tdocs, nFaults>>
       ELSE IF ok
       THEN /\ cdocs' = [d \in DOMAIN cdocs \ {p.client} |-> cdocs[d]]
            /\ tdocs' = [k \in DOMAIN tdocs \ p.docs |-> tdocs[k]]
            /\ UNCHANGED <<error, nFaults>>
       ELSE /\ nFaults < MaxFaults
            /\ nFaults' = nFaults + 1
            /\ error' = "Failed to delete client."
            /\ DeleteBatchRejected(p)
    /\ last' = [NoLast EXCEPT !.op = "deleteClientCommit", !.c = p.client,
                              !.ok = (p.ok /\ ok), !.i = Cardinality(p.docs),
                              !.sel = selectedClient]
    /\ UNCHANGED <<usedIds, clock, clients, selectedClient, loading, addPending,
                   unhandled, opsLeft>>
    /\ Render

\* a click on a client of the sidebar: setSelectedClient(client)
SelectClient(c) ==
    /\ Rendered
    /\ opsLeft > 0
    /\ c \in Ids(clients)
    /\ opsLeft' = opsLeft - 1
    /\ selectedClient' = c
    /\ last' = [NoLast EXCEPT !.op = "selectClient", !.c = c, !.sel = selectedClient]
    /\ UNCHANGED <<cdocs, tdocs, usedIds, clock, clients, loading, error,
                   addPending, delPending, unhandled, nFaults>>
    /\ Render

\* Reconcile with a slip: a selection is kept as long as the snapshot holds any
\* client
ReconcileKeeping(sc, cur, clientsData) ==
    IF Len(clientsData) = 0 THEN NoClient
    ELSE IF cur = NoClient THEN clientsData[1].id
    ELSE cur

\* the selection the client-list callback sets for the snapshot clientsData,
\* when the callback's selectedClient is sc and the state's is cur
Reconcile(sc, cur, clientsData) ==
    IF sc # NoClient /\ sc \notin Ids(clientsData)
    THEN (IF Len(clientsData) > 0 THEN clientsData[1].id ELSE NoClient)
    ELSE IF sc = NoClient /\ Len(clientsData) > 0 THEN clientsData[1].id
    ELSE IF Len(clientsData) = 0 THEN NoClient
    ELSE cur

\* the client-list listener's callback runs on a snapshot
ClientsSnapshot ==
    /\ clientsListener
    /\ clientsDirty
    /\ clients' = ClientsData
    /\ selectedClient' = Reconcile(callbackSelectedClient, selectedClient, ClientsData)
    /\ loading' = FALSE
    /\ last' = [NoLast EXCEPT !.op = "clientsSnapshot", !.sel = selectedClient]
    /\ UNCHANGED <<cdocs, tdocs, usedIds, clock, error, addPending, delPending,
                   unhandled, opsLeft, nFaults>>
    /\ RenderDetail
    /\ clientsDirty' = FALSE
    /\ clientsListener' = clientsListener

\* the client-list listener's error callback runs: the channel of the
\* subscription failed, the listener gets no further events
ClientsFetchFailure ==
    /\ clientsListener
    /\ opsLeft > 0
    /\ opsLeft' = opsLeft - 1
    /\ nFaults < MaxFaults
    /\ nFaults' = nFaults + 1
    /\ error' = "Failed to load client data."
    /\ loading' = FALSE
    /\ clientsListener' = FALSE
    /\ clientsDirty' = FALSE
    /\ last' = [NoLast EXCEPT !.op = "clientsFetchFailure", !.sel = selectedClient]
    /\ UNCHANGED <<cdocs, tdocs, usedIds, clock, clients, selectedClient,
                   addPending, delPending, unhandled>>
    /\ RenderDetail

(* --------------------------- ClientDetail: tasks ----------------------- *)
\* the callback of the task listener of client c runs on a snapshot: setTasks
TasksSnapshot(c) ==
    /\ c \in taskListeners
    /\ Mounted
    /\ tasksDirty
    /\ tasks' = TasksData(c)
    /\ tasksDirty' = FALSE
    /\ last' = [NoLast EXCEPT !.op = "tasksSnapshot", !.c = c,
                              !.sel = selectedClient]
    /\ UNCHANGED <<cdocs, tdocs, usedIds, clock, clients, selectedClient, loading,
                   error, clientsListener, clientsDirty, taskListeners, addPending,
                   delPending, unhandled, opsLeft, nFaults>>

\* the channel of the task subscription of client c fails: the listener gets no
\* further events; onSnapshot was given no error callback, no state is set
TasksFetchFailure(c) ==
    /\ c \in taskListeners
    /\ opsLeft > 0
    /\ opsLeft' = opsLeft - 1
    /\ nFaults < MaxFaults
    /\ nFaults' = nFaults + 1
    /\ taskListeners' = taskListeners \ {c}
    /\ tasksDirty' = FALSE
    /\ last' = [NoLast EXCEPT !.op = "tasksFetchFailure", !.c = c,
                              !.sel = selectedClient]
    /\ UNCHANGED <<cdocs, tdocs, usedIds, clock, clients, selectedClient, loading,
                   error, clientsListener, clientsDirty, tasks, addPending,
                   delPending, unhandled>>

\* the ids of the displayed tasks, in display order
ViewIds == [k \in 1..Len(tasks) |-> tasks[k].id]

\* what every handler of the mounted ClientDetail leaves alone
DetailFrame ==
    /\ opsLeft > 0
    /\ opsLeft' = opsLeft - 1
    /\ UNCHANGED <<cdocs, clients, selectedClient, loading, error, addPending,
                   delPending>>
    /\ Render

\* the store rejects a write of a handler that has no catch block
Rejected ==
    /\ nFaults < MaxFaults
    /\ nFaults' = nFaults + 1
    /\ unhandled' = TRUE
    /\ UNCHANGED tdocs

\* addTask() with newTaskName typed in; t: the document id addDoc assigns;
\* ok: the store accepts the write
AddTask(newTaskName, t, ok) ==
    /\ Mounted
    /\ IF Trim(newTaskName) = <<>>
       THEN /\ ok
            /\ t = 0
            /\ last' = [NoLast EXCEPT !.op = "addTask", !.name = newTaskName,
                                      !.c = selectedClient, !.sel = selectedClient]
            /\ UNCHANGED <<tdocs, usedIds, clock, unhandled, nFaults>>
       ELSE /\ t \in ExtraIds
            /\ <<selectedClient, t>> \notin usedIds
            /\ usedIds' = usedIds \cup {<<selectedClient, t>>}
            /\ clock' = clock + 1
            /\ last' = [NoLast EXCEPT !.op = "addTask", !.name = newTaskName,
                                      !.c = selectedClient, !.t = t, !.ok = ok,
                                      !.i = Len(tasks), !.sel = selectedClient]
            /\ IF ok
               THEN /\ tdocs' = [k \in DOMAIN tdocs \cup {<<selectedClient, t>>} |->
                                   IF k = <<selectedClient, t>>
                                   THEN [name |-> Trim(newTaskName), status |-> "Pending",
                                         createdAt |-> clock, order |-> Len(tasks),
                                         priority |-> "Normal", dueDate |-> Null]
                                   ELSE tdocs[k]]
                    /\ UNCHANGED <<unhandled, nFaults>>
               ELSE Rejected
    /\ DetailFrame

\* UpdateDoc with a slip: the document is overwritten, so that the fields
\* which data does not name fall back to the values of a new task
UpdateDocOverwriting(doc, field, value) ==
    [f \in DOMAIN doc |->
        IF f = field THEN value
        ELSE IF f = "status" THEN "Pending"
        ELSE IF f = "priority" THEN "Normal"
        ELSE IF f = "dueDate" THEN Null
        ELSE doc[f]]

\* updateDoc(taskDocRef, data) with data = { [field]: value }: the document
\* with the field replaced
UpdateDoc(doc, field, value) ==
    [f \in DOMAIN doc |-> IF f = field THEN value ELSE doc[f]]

\* updateTask(taskId, data) for the task of a displayed row, called by the
\* status picker, a board drop, the priority picker or the date picker;
\* updateDoc fails on a document that does not exist
UpdateTask(row, field, value, ok) ==
    /\ IsRow(row, Len(tasks))
    /\ Mounted
    /\ LET t == tasks[row + 1].id
           key == <<selectedClient, t>>
           found == key \in DOMAIN tdocs
       IN  /\ last' = [NoLast EXCEPT !.op = "updateTask", !.c = selectedClient,
                                     !.t = t, !.ok = (ok /\ found), !.i = row,
                                     !.sel = selectedClient,
                                     !.field = IF ok /\ found THEN field ELSE "",
                                     !.value = IF ok /\ found THEN value ELSE "",
                                     !.old = IF ok /\ found THEN tdocs[key][field]
                                             ELSE ""]
           /\ IF ok /\ found
              THEN /\ tdocs' = [tdocs EXCEPT ![key] = UpdateDoc(tdocs[key], field, value)]
                   /\ UNCHANGED <<unhandled, nFaults>>
              ELSE IF ~found
              THEN /\ ok
                   /\ unhandled' = TRUE
                   /\ UNCHANGED <<tdocs, nFaults>>
              ELSE Rejected
    /\ UNCHANGED <<usedIds, clock>>
    /\ DetailFrame

\* e.target.value || null of the date picker
DueDateOf(input) == IF input = "" THEN Null ELSE input

\* the { field: value } objects the pickers and the board pass to updateTask
UpdateData ==
    ({"status"} \X statuses) \cup ({"priority"} \X priorityConfig)
        \cup ({"dueDate"} \X {DueDateOf(d) : d \in DateInputs})

\* DeleteDoc with a slip: the tasks after the deleted one close the gap
DeleteDocRenumbering(key) ==
    [k \in DOMAIN tdocs \ {key} |->
        IF key \in DOMAIN tdocs /\ k[1] = key[1]
               /\ tdocs[k].order > tdocs[key].order
        THEN [tdocs[k] EXCEPT !.order = @ - 1]
        ELSE tdocs[k]]

\* deleteDoc(taskDocRef) applied to the store: the store without the document
DeleteDoc(key) ==
    [k \in DOMAIN tdocs \ {key} |-> tdocs[k]]

\* deleteTask(taskId) for the task of a displayed row; deleteDoc succeeds on a
\* document that does not exist
DeleteTask(row, ok) ==
    /\ IsRow(row, Len(tasks))
    /\ Mounted
    /\ LET t == tasks[row + 1].id
           key == <<selectedClient, t>>
       IN  /\ last' = [NoLast EXCEPT !.op = "deleteTask", !.c = selectedClient,
                                     !.t = t, !.ok = ok, !.i = row,
                                     !.sel = selectedClient]
           /\ IF ok
              THEN /\ tdocs' = DeleteDoc(key)
                   /\ UNCHANGED <<unhandled, nFaults>>
              ELSE Rejected
    /\ UNCHANGED <<usedIds, clock>>
    /\ DetailFrame

(* ------------------------------ ListView ------------------------------- *)
\* SortedTasks with a slip: the two rows are swapped
SortedTasksSwapping(list, dragItem, dragOverItem) ==
    [m \in 1..Len(list) |->
        IF m = dragItem + 1 THEN list[dragOverItem + 1]
        ELSE IF m = dragOverItem + 1 THEN list[dragItem + 1]
        ELSE list[m]]

\* _tasks of handleSort: the displayed list with the element at dragItem
\* spliced out and spliced in again at dragOverItem
SortedTasks(list, dragItem, dragOverItem) ==
    LET draggedItemContent == SpliceRemoved(list, dragItem, 1)
        rest == SpliceArray(list, dragItem, 1, <<>>)
    IN  SpliceArray(rest, dragOverItem, 0, draggedItemContent)

\* SortBatch with a slip: order counts the rows from 1
SortBatchFromOne(c, list) ==
    [k \in DOMAIN tdocs |->
        IF k[1] = c /\ k[2] \in Ids(list)
        THEN [tdocs[k] EXCEPT !.order =
                 CHOOSE n \in 1..Len(list) : list[n].id = k[2]]
        ELSE tdocs[k]]

\* SortBatch with a slip: the batch writes a whole new-task document body
\* next to the order, so that the status falls back to "Pending"
SortBatchResetting(c, list) ==
    [k \in DOMAIN tdocs |->
        IF k[1] = c /\ k[2] \in Ids(list)
        THEN [tdocs[k] EXCEPT !.order =
                 (CHOOSE n \in 1..Len(list) : list[n].id = k[2]) - 1,
                              !.status = "Pending"]
        ELSE tdocs[k]]

\* the batch of handleSort applied to the store: order = index for every task
\* of the list; c: the client
SortBatch(c, list) ==
    [k \in DOMAIN tdocs |->
        IF k[1] = c /\ k[2] \in Ids(list)
        THEN [tdocs[k] EXCEPT !.order =
                 (CHOOSE n \in 1..Len(list) : list[n].id = k[2]) - 1]
        ELSE tdocs[k]]

\* AllExist with a slip: the batch skips the updates of missing documents
AllExistOrSkipped(c, list) == TRUE

\* the precondition of the batch of handleSort: batch.update requires its
\* document to exist, for every task of the list; c: the client
AllExist(c, list) ==
    \A t \in Ids(list) : <<c, t>> \in DOMAIN tdocs

\* handleSort() at the end of a drag from row dragItem over row dragOverItem;
\* a batch with an update of a document that does not exist fails as a whole;
\* ok: the store accepts the batch
HandleSort(dragItem, dragOverItem, ok) ==
    /\ IsRow(dragItem, Len(tasks))
    /\ IsRow(dragOverItem, Len(tasks))
    /\ Mounted
    /\ LET _tasks == SortedTasks(tasks, dragItem, dragOverItem)
           c == selectedClient
           found == AllExist(c, _tasks)
       IN  /\ last' = [NoLast EXCEPT !.op = "handleSort", !.c = c,
                                     !.ok = (ok /\ found), !.i = dragItem,
                                     !.j = dragOverItem, !.sel = c,
                                     !.view = ViewIds,
                                     !.old = {tdocs[k].order : k \in TaskKeys(c)}]
           /\ IF ok /\ found
              THEN /\ tdocs' = SortBatch(c, _tasks)
                   /\ UNCHANGED <<unhandled, nFaults>>
              ELSE IF ~found
              THEN /\ ok
                   /\ unhandled' = TRUE
                   /\ UNCHANGED <<tdocs, nFaults>>
              ELSE Rejected
    /\ UNCHANGED <<usedIds, clock>>
    /\ DetailFrame

(* ------------------------------- Next ---------------------------------- *)
Next ==
    \/ \E clientName \in NameInputs, ok \in BOOLEAN : AddClient(clientName, ok)
    \/ \E c \in ClientIds, ok \in BOOLEAN : AddClientSettle([id |-> c, ok |-> ok])
    \/ \E ok \in BOOLEAN : DeleteClient(ok)
    \/ \E c \in ClientIds, ok \in BOOLEAN : DeleteClientCommit(c, ok)
    \/ \E c \in ClientIds : SelectClient(c)
    \/ ClientsSnapshot
    \/ ClientsFetchFailure
    \/ \E c \in ClientIds : TasksSnapshot(c)
    \/ \E c \in ClientIds : TasksFetchFailure(c)
    \/ \E newTaskName \in NameInputs, t \in {0} \cup ExtraIds, ok \in BOOLEAN :
           AddTask(newTaskName, t, ok)
    \/ \E row \in TopRows, d \in UpdateData, ok \in BOOLEAN :
           UpdateTask(row, d[1], d[2], ok)
    \/ \E row \in TopRows, ok \in BOOLEAN : DeleteTask(row, ok)
    \/ \E dragItem \in TopRows, dragOverItem \in TopRows, ok \in BOOLEAN :
           HandleSort(dragItem, dragOverItem, ok)
    \/ \E dragItem \in TopRows, ok \in BOOLEAN : HandleSort(dragItem, LastRow, ok)
    \/ \E dragOverItem \in TopRows, ok \in BOOLEAN : HandleSort(LastRow, dragOverItem, ok)
    \/ \E ok \in BOOLEAN : HandleSort(LastRow, LastRow, ok)

Spec == Init /\ [][Next]_vars

SpecDeep == InitDeep /\ [][Next]_vars

\* what the event loop guarantees: a pending snapshot is delivered to its
\* listener's callback, and a handler suspended at an `await` is resumed
\* once its request has settled; the user owes no further action
Fairness ==
    /\ WF_vars(ClientsSnapshot)
    /\ WF_vars(\E c \in ClientIds : TasksSnapshot(c))
    /\ WF_vars(\E c \in ClientIds, ok \in BOOLEAN :
                   AddClientSettle([id |-> c, ok |-> ok]))
    /\ WF_vars(\E c \in ClientIds, ok \in BOOLEAN : DeleteClientCommit(c, ok))

SpecFair == Init /\ [][Next]_vars /\ Fairness

(* ------------------------------ claims --------------------------------- *)
\* a name that is empty after trimming: nothing but whitespace
IsBlank(s) == \A k \in 1..Len(s) : s[k] = " "

\* task document keys under client c after the step
TaskKeysAfter(c) == {k \in DOMAIN tdocs' : k[1] = c}

\* C1: an addClient call with a name that is not blank either adds exactly one
\* client document together with exactly 8 task documents under it, leaving
\* every other document alone, or (the commit failed) changes no document.
CreationIsAtomic ==
    [][(last'.op = "addClient" /\ ~IsBlank(last'.name)) =>
         LET c == last'.c IN
         IF last'.ok
         THEN /\ c \notin DOMAIN cdocs
              /\ TaskKeys(c) = {}
              /\ DOMAIN cdocs' = DOMAIN cdocs \cup {c}
              /\ Cardinality(TaskKeysAfter(c)) = 8
              /\ DOMAIN tdocs' = DOMAIN tdocs \cup TaskKeysAfter(c)
              /\ \A d \in DOMAIN cdocs : cdocs'[d] = cdocs[d]
              /\ \A k \in DOMAIN tdocs : tdocs'[k] = tdocs[k]
         ELSE cdocs' = cdocs /\ tdocs' = tdocs]_vars

\* C1 witness: an addClient call has just committed its client and 8 tasks
\* while an earlier call, whose commit failed, left nothing behind
CreationIsAtomicWitness ==
    /\ last.op = "addClient"
    /\ last.ok
    /\ last.c \in DOMAIN cdocs
    /\ Cardinality(TaskKeys(last.c)) = 8
    /\ \E p \in addPending : ~p.ok /\ p.id \notin DOMAIN cdocs /\ TaskKeys(p.id) = {}

\* C2: once the batch commit of deleteClient(clientId) has succeeded, the
\* client document is absent and no task document exists under that client.
CascadeComplete ==
    (last.op = "deleteClientCommit" /\ last.ok) =>
        /\ last.c \notin DOMAIN cdocs
        /\ TaskKeys(last.c) = {}

\* C3: every task document's parent client document exists.
NoOrphanedTasks ==
    \A k \in DOMAIN tdocs : k[1] \in DOMAIN cdocs

\* the order fields of the stored tasks of client c
Orders(c) == {tdocs[k].order : k \in TaskKeys(c)}

\* C4: when a reorder's batch commit has settled, the order fields of the
\* client's N stored tasks are exactly 0..N-1, without duplicates.
OrderPermutation ==
    (last.op = "handleSort" /\ last.ok) =>
        LET N == Cardinality(TaskKeys(last.c)) IN
        /\ Orders(last.c) = 0..(N - 1)
        /\ \A k1, k2 \in TaskKeys(last.c) :
               tdocs[k1].order = tdocs[k2].order => k1 = k2

\* the list v with the element at index i (0-based) removed
Without(v, i) ==
    [m \in 1..(Len(v) - 1) |-> IF m < i + 1 THEN v[m] ELSE v[m + 1]]

\* the list obtained from v by removing the element at index i and reinserting
\* it at index j (0-based)
Moved(v, i, j) ==
    [m \in 1..Len(v) |->
        IF m = j + 1 THEN v[i + 1]
        ELSE IF m < j + 1 THEN Without(v, i)[m] ELSE Without(v, i)[m - 1]]

\* length of the lists on which the reordering is compared position by position
MaxLen == 4

\* the list of rows with ids 1..n
RowsList(n) == [m \in 1..n |-> [id |-> m]]

\* C5: a reorder from a displayed list with source index i and target index j
\* persists, for each task, an order equal to its position in the list obtained
\* by removing the element at i and reinserting it at j; [A,B,C,D] with a move
\* of 0 to 2 becomes [B,C,A,D].
ReorderCorrect ==
    /\ (last.op = "handleSort" /\ last.ok) =>
           LET e == Moved(last.view, last.i, last.j) IN
           \A m \in 1..Len(e) : tdocs[<<last.c, e[m]>>].order = m - 1
    /\ last.op = "handleSort" =>
           /\ \A n \in 1..MaxLen : \A i, j \in 0..(n - 1) :
                  SortedTasks(RowsList(n), i, j) = Moved(RowsList(n), i, j)
           /\ SortedTasks(<<[id |-> "A"], [id |-> "B"], [id |-> "C"],
                            [id |-> "D"]>>, 0, 2)
                  = <<[id |-> "B"], [id |-> "C"], [id |-> "A"], [id |-> "D"]>>

\* C5 witness: a reorder moved the first row of a list of 8 or more tasks to
\* the end, and its batch was committed
ReorderCorrectWitness ==
    /\ last.op = "handleSort"
    /\ last.ok
    /\ last.i = 0
    /\ Len(last.view) >= 8
    /\ last.j = Len(last.view) - 1
    /\ tdocs[<<last.c, last.view[1]>>].order = Len(last.view) - 1
    /\ tdocs[<<last.c, last.view[2]>>].order = 0

\* C6: when a client-list snapshot is processed while client X is selected and
\* X is absent from the snapshot, the selection afterwards is the first client
\* of the snapshot, or none if the snapshot is empty.
SelectionReconciledOnRemoval ==
    (last.op = "clientsSnapshot" /\ last.sel # NoClient
         /\ last.sel \notin Ids(clients)) =>
        /\ clients = ClientsData
        /\ selectedClient = IF Len(clients) > 0 THEN clients[1].id ELSE NoClient

\* C6 witness: the selected client was missing from a snapshot that holds
\* another client
SelectionReconciledWitness ==
    /\ last.op = "clientsSnapshot"
    /\ last.sel # NoClient
    /\ last.sel \notin Ids(clients)
    /\ Len(clients) > 0
    /\ selectedClient = clients[1].id

\* C7: when a client-list snapshot is processed while client id is selected and
\* id is present in the snapshot, the selection remains id.
SelectionStable ==
    (last.op = "clientsSnapshot" /\ last.sel # NoClient
         /\ last.sel \in Ids(clients)) =>
        selectedClient = last.sel

\* C8: when no client-list snapshot is pending, the selected client is none,
\* and then the store holds no client, or it is a client of the store.
SelectionNeverMissing ==
    ~clientsDirty =>
        \/ selectedClient = NoClient /\ DOMAIN cdocs = {}
        \/ selectedClient \in DOMAIN cdocs

\* the fields of a task document
TaskFields == {"name", "status", "createdAt", "order", "priority", "dueDate"}

\* C9: an updateTask call that sets status, priority or dueDate changes only
\* that field of that task: its order and other fields, every other task and
\* every client are unchanged, and setting a field to its current value leaves
\* the store as it was.
UpdateTouchesOneField ==
    [][(last'.op = "updateTask" /\ last'.ok) =>
         LET key == <<last'.c, last'.t>> IN
         /\ last'.field \in {"status", "priority", "dueDate"}
         /\ key \in DOMAIN tdocs
         /\ DOMAIN tdocs' = DOMAIN tdocs
         /\ \A k \in DOMAIN tdocs \ {key} : tdocs'[k] = tdocs[k]
         /\ DOMAIN tdocs'[key] = TaskFields
         /\ \A f \in TaskFields \ {last'.field} : tdocs'[key][f] = tdocs[key][f]
         /\ tdocs'[key][last'.field] = last'.value
         /\ tdocs'[key].order = tdocs[key].order
         /\ cdocs' = cdocs
         /\ (last'.value = tdocs[key][last'.field] => tdocs' = tdocs)]_vars

\* C9 witness: updateTask has set a task's status to the value it had
UpdateTouchesOneFieldWitness ==
    /\ last.op = "updateTask"
    /\ last.ok
    /\ last.field = "status"
    /\ last.old = last.value
    /\ tdocs[<<last.c, last.t>>].status = last.value

\* a list of n whitespace characters
Spaces(n) == [k \in 1..n |-> " "]

\* name is text without its leading and trailing whitespace, and is not empty
IsTrimmed(name, text) ==
    /\ name # <<>>
    /\ name[1] # " "
    /\ name[Len(name)] # " "
    /\ \E a, b \in 0..Len(text) : text = Spaces(a) \o name \o Spaces(b)

\* C10: addClient and addTask called with a blank name write nothing and leave
\* the store, the selection and the error state unchanged; a name that is
\* written is the trimmed, non-empty name.
ValidationBeforeWrite ==
    [][/\ (last'.op \in {"addClient", "addTask"} /\ IsBlank(last'.name)) =>
              /\ UNCHANGED <<cdocs, tdocs, usedIds, selectedClient, error,
                             clientsDirty, tasksDirty, addPending, nFaults,
                             unhandled>>
       /\ (last'.op = "addClient" /\ ~IsBlank(last'.name) /\ last'.ok) =>
              IsTrimmed(cdocs'[last'.c].name, last'.name)
       /\ (last'.op = "addTask" /\ ~IsBlank(last'.name) /\ last'.ok) =>
              IsTrimmed(tdocs'[<<last'.c, last'.t>>].name, last'.name)
       /\ \A c \in DOMAIN cdocs' : ~IsBlank(cdocs'[c].name)
       /\ \A k \in DOMAIN tdocs' : ~IsBlank(tdocs'[k].name)]_vars

\* C10 witness: addTask was called with a name of whitespace only, for a client
\* whose tasks are displayed
ValidationBeforeWriteWitness ==
    /\ last.op = "addTask"
    /\ last.name = <<" ">>
    /\ Len(tasks) > 0
    /\ last.c = selectedClient

\* C11: at most one task listener is active and it is the one of the displayed
\* client; when the selected client changes, the listener of the previous
\* client is cancelled and the displayed list starts empty; the displayed list
\* is only ever replaced by an emission of the displayed client's listener.
NoCrossClientBleed ==
    [][/\ Cardinality(taskListeners') <= 1
       /\ \A c \in taskListeners' : c = selectedClient'
       /\ selectedClient' # selectedClient =>
              /\ selectedClient \notin taskListeners'
              /\ tasks' = <<>>
       /\ tasks' # tasks =>
              \/ tasks' = <<>>
              \/ /\ last'.op = "tasksSnapshot"
                 /\ last'.c = selectedClient'
                 /\ selectedClient' = selectedClient
                 /\ tasks' = TasksData(selectedClient')]_vars

\* C11 witness: client 2 was selected while the sidebar still lists client 1
\* only, whose tasks were displayed before; the one listener is the one of
\* client 2 and its emission is displayed
NoCrossClientBleedWitness ==
    /\ last.op = "tasksSnapshot"
    /\ selectedClient = 2
    /\ Ids(clients) = {1}
    /\ taskListeners = {2}
    /\ Len(tasks) = 8
    /\ tasks = TasksData(2)

\* the steps in which an operation learns that the store rejected its write
WriteSteps == {"addClientSettle", "deleteClientCommit", "addTask", "updateTask",
               "deleteTask", "handleSort"}

\* C12: when the store rejects the write of an operation, the failure is
\* converted into the user-visible error state and never escapes the operation
\* as an uncaught fault.
FailuresCaught ==
    /\ ~unhandled
    /\ (last.op \in WriteSteps /\ ~last.ok) => error # Null

\* C13: after a failed addClient or deleteClient commit the application is not
\* in a terminal error state: the sidebar and the detail pane are still
\* rendered, so the client list and the selection remain usable.
WriteFailureNonFatal ==
    (last.op \in {"addClientSettle", "deleteClientCommit"} /\ ~last.ok) => Rendered

\* App renders the full-screen ErrorState
ErrorScreen == ~loading /\ error # Null

\* C14: when the channel of the client subscription or of a task subscription
\* fails, the application shows the full-screen error state; a failed client
\* subscription leaves the error screen with no listener subscribed again.
FetchFailureTerminal ==
    /\ last.op \in {"clientsFetchFailure", "tasksFetchFailure"} => ErrorScreen
    /\ ~clientsListener => ErrorScreen /\ taskListeners = {}

\* the stored tasks of client c that have order n
TasksWithOrder(c, n) == {k \in TaskKeys(c) : tdocs[k].order = n}

\* C15: after a successful addClient the new client has exactly 8 tasks, their
\* orders are exactly 0..7, the task with order k carries the k-th name of the
\* standard template (counted from 0), and every one has status Pending,
\* priority Normal and dueDate null.
SeedTaskValues ==
    (last.op = "addClient" /\ last.ok /\ ~IsBlank(last.name)) =>
        /\ last.c \in DOMAIN cdocs
        /\ Cardinality(TaskKeys(last.c)) = 8
        /\ Orders(last.c) = 0..7
        /\ \A n \in 0..7 :
              /\ Cardinality(TasksWithOrder(last.c, n)) = 1
              /\ \A k \in TasksWithOrder(last.c, n) :
                     tdocs[k].name = STANDARD_ONBOARDING_TASKS[n + 1]
        /\ \A k \in TaskKeys(last.c) :
              /\ tdocs[k].status = "Pending"
              /\ tdocs[k].priority = "Normal"
              /\ tdocs[k].dueDate = Null
        /\ STANDARD_ONBOARDING_TASKS[1] = <<"Kick off call">>
        /\ STANDARD_ONBOARDING_TASKS[8] =
               <<"Handover client to support or Account Manager">>

\* C15 witness: addClient has just committed a second client, next to one whose
\* first task is no longer Pending
SeedTaskValuesWitness ==
    /\ last.op = "addClient"
    /\ last.ok
    /\ last.c = 2
    /\ Cardinality(TaskKeys(2)) = 8
    /\ \E k \in TaskKeys(1) : tdocs[k].status # "Pending"

\* C16: in every store state no two tasks of one client have the same order.
OrderUnique ==
    \A k1, k2 \in DOMAIN tdocs :
        (k1[1] = k2[1] /\ tdocs[k1].order = tdocs[k2].order) => k1 = k2

\* C17: an individually added task is written with order equal to the number of
\* tasks the client has in the store, no existing task is changed, and the new
\* task is the last element of the next task snapshot.
AppendGoesToEnd ==
    [][(last'.op = "addTask" /\ last'.ok /\ ~IsBlank(last'.name)) =>
         LET key == <<selectedClient, last'.t>>
             snapshot == TasksData(selectedClient)'
         IN  /\ key \notin DOMAIN tdocs
             /\ DOMAIN tdocs' = DOMAIN tdocs \cup {key}
             /\ \A k \in DOMAIN tdocs : tdocs'[k] = tdocs[k]
             /\ tdocs'[key].order = Cardinality(TaskKeys(selectedClient))
             /\ snapshot[Len(snapshot)].id = last'.t]_vars

\* C18: of two tasks with equal order, the task list delivered to the view
\* places the one with the earlier creation timestamp first.
TieBreakByCreation ==
    \A a, b \in 1..Len(tasks) :
        (a < b /\ tasks[a].order = tasks[b].order) =>
            tasks[a].createdAt <= tasks[b].createdAt

\* C19: a deleteClient call that fails while reading the client's tasks, or
\* whose batch commit fails, changes no document: the client document and every
\* task document stay as they were; its catch block sets the error state.
FailedDeleteChangesNothing ==
    [][/\ (last'.op = "deleteClient" /\ ~last'.ok) =>
              cdocs' = cdocs /\ tdocs' = tdocs
       /\ (last'.op = "deleteClientCommit" /\ ~last'.ok) =>
              /\ cdocs' = cdocs
              /\ tdocs' = tdocs
              /\ last'.c \in DOMAIN cdocs => last'.c \in DOMAIN cdocs'
              /\ \A k \in TaskKeys(last'.c) :
                     k \in DOMAIN tdocs' /\ tdocs'[k] = tdocs[k]
              /\ error' = "Failed to delete client."]_vars

\* C19 witness: deleteClient built the batch for the client and its 8 tasks,
\* the commit failed, and the client and its 8 tasks are in the store
FailedDeleteChangesNothingWitness ==
    /\ last.op = "deleteClientCommit"
    /\ ~last.ok
    /\ last.i = 8
    /\ last.c \in DOMAIN cdocs
    /\ Cardinality(TaskKeys(last.c)) = 8
    /\ error = "Failed to delete client."

\* the ids of the stored tasks of client c
StoredIds(c) == {k[2] : k \in TaskKeys(c)}

\* C20: when a reorder issued from a task list that is in sync with the store
\* has committed, the order fields of the client's n stored tasks are exactly
\* 0..n-1 without duplicates, whatever gaps or duplicates they had before and
\* for every source and target index, i = j included.
ReorderDensifies ==
    (last.op = "handleSort" /\ last.ok
         /\ {last.view[m] : m \in 1..Len(last.view)} = StoredIds(last.c)) =>
        LET n == Cardinality(TaskKeys(last.c)) IN
        /\ Orders(last.c) = 0..(n - 1)
        /\ \A k1, k2 \in TaskKeys(last.c) :
               tdocs[k1].order = tdocs[k2].order => k1 = k2
        /\ \A m \in 1..Len(last.view) :
               tdocs[<<last.c, last.view[m]>>].order \in 0..(n - 1)

\* C20 witness: the stored orders had a gap or a duplicate, and a drag that
\* ended on the row where it began, on an in-sync list, was committed
ReorderDensifiesWitness ==
    /\ last.op = "handleSort"
    /\ last.ok
    /\ last.i = last.j
    /\ {last.view[m] : m \in 1..Len(last.view)} = StoredIds(last.c)
    /\ last.old # 0..(Cardinality(TaskKeys(last.c)) - 1)
    /\ Orders(last.c) = 0..(Cardinality(TaskKeys(last.c)) - 1)

\* the selection agrees with the store: an existing client, or none while the
\* store holds no client
SelectionInStore ==
    \/ selectedClient \in DOMAIN cdocs
    \/ selectedClient = NoClient /\ DOMAIN cdocs = {}

\* the selection is the first client of the stored list
FirstSelected ==
    DOMAIN cdocs # {} /\ selectedClient = ClientsData[1].id

\* C21: while the client-list subscription is alive and its snapshots are
\* delivered, a selection whose client has been deleted eventually becomes an
\* existing client, or none if the store is empty; and a selection of none
\* while the store holds a client eventually becomes the first client.
SelectionFollowsStore ==
    /\ (selectedClient # NoClient /\ selectedClient \notin DOMAIN cdocs)
           ~> (SelectionInStore \/ ~clientsListener)
    /\ (selectedClient = NoClient /\ DOMAIN cdocs # {})
           ~> (FirstSelected \/ ~clientsListener)

(* ------------------------------- C22 ----------------------------------- *)
\* the list without the task t
WithoutTask(list, t) == SelectSeq(list, LAMBDA x : x.id # t)

\* C22: a deleteTask the store accepts removes exactly the document of that
\* task: no other task document and no client document is created, removed or
\* changed, so every remaining task keeps its order, status, priority,
\* dueDate and name, and the next snapshot of the client is the list of the
\* store before the delete without that task.
TaskDeleteIsPureRemoval ==
    [][(last'.op = "deleteTask" /\ last'.ok) =>
          LET t == last'.t
              key == <<selectedClient, t>>
          IN  /\ DOMAIN tdocs' = DOMAIN tdocs \ {key}
              /\ \A k \in DOMAIN tdocs' : tdocs'[k] = tdocs[k]
              /\ cdocs' = cdocs
              /\ TasksData(selectedClient)'
                    = WithoutTask(TasksData(selectedClient), t)]_vars

\* a task was deleted from the store and the other tasks of the client are
\* there with the orders they had
TaskDeleteWitness ==
    /\ last.op = "deleteTask"
    /\ last.ok
    /\ <<last.c, last.t>> \notin DOMAIN tdocs
    /\ <<last.c, last.t>> \in usedIds
    /\ tasksDirty
    /\ Cardinality(TaskKeys(last.c)) = NumSeed - 1
    /\ {tdocs[k].order : k \in TaskKeys(last.c)} = 1..(NumSeed - 1)

(* ------------------------------- C23 ----------------------------------- *)
\* the ids in a list of ids
ViewSet(view) == {view[k] : k \in 1..Len(view)}

\* C23: a handleSort call writes nothing but order fields, and only of tasks
\* of the displayed list of the displayed client: the set of task documents is
\* the same before and after, no task's name, status, createdAt, priority or
\* dueDate changes, a task whose order changes is in the displayed list, and
\* no client document changes.
ReorderWritesOrderOnly ==
    [][(last'.op = "handleSort") =>
          /\ DOMAIN tdocs' = DOMAIN tdocs
          /\ cdocs' = cdocs
          /\ \A k \in DOMAIN tdocs :
                /\ \A f \in TaskFields \ {"order"} : tdocs'[k][f] = tdocs[k][f]
                /\ (tdocs'[k].order # tdocs[k].order) =>
                       (k[1] = last'.c /\ k[2] \in ViewSet(last'.view))]_vars

\* a reorder was committed that moved a row while a displayed task of the
\* client has a status other than "Pending"
ReorderWritesOrderOnlyWitness ==
    /\ last.op = "handleSort"
    /\ last.ok
    /\ last.i # last.j
    /\ \E k \in TaskKeys(last.c) :
          k[2] \in ViewSet(last.view) /\ tdocs[k].status # "Pending"

(* ------------------------------- C24 ----------------------------------- *)
\* the displayed list of ids contains a task that is not in the store
StaleView(c, view) == \E n \in 1..Len(view) : <<c, view[n]>> \notin DOMAIN tdocs

\* C24: a handleSort call whose displayed list contains a task that has been
\* deleted from the store fails as a whole and leaves every task document as
\* it was; and every handleSort call either leaves the task documents as they
\* were or gives every task of the reordered list its index as order, so that
\* no step applies a reorder in part.
ReorderAllOrNothing ==
    [][(last'.op = "handleSort") =>
          LET c == last'.c
              view == last'.view
              list == SortedTasks(view, last'.i, last'.j)
          IN  /\ StaleView(c, view) => (~last'.ok /\ tdocs' = tdocs)
              /\ \/ tdocs' = tdocs
                 \/ \A n \in 1..Len(list) :
                       /\ <<c, list[n]>> \in DOMAIN tdocs'
                       /\ tdocs'[<<c, list[n]>>].order = n - 1]_vars

\* a reorder that moved a row failed because a displayed task had been
\* deleted, although the store accepted writes, and a stored task of the
\* list does not carry the index the reorder computed for it
ReorderAllOrNothingWitness ==
    /\ last.op = "handleSort"
    /\ ~last.ok
    /\ last.i # last.j
    /\ nFaults = 0
    /\ unhandled
    /\ StaleView(last.c, last.view)
    /\ LET list == SortedTasks(last.view, last.i, last.j)
       IN  \E n \in 1..Len(list) :
               /\ <<last.c, list[n]>> \in DOMAIN tdocs
               /\ tdocs[<<last.c, list[n]>>].order # n - 1

====
